---------------------------- MODULE Spec2Model ----------------------------
(***************************************************************************)
(* Chord solver (src/src/lib.ts): note parsing, interval naming and chord  *)
(* identification with inversion search.                                   *)
(*                                                                         *)
(* A query is one behaviour: the caller holds a text `input`, parseNotes   *)
(* turns it into the caller's array `notes`, and processNotes is called on *)
(* that array.  Character strings are sequences of one-character strings;  *)
(* the display names and messages the code builds with + are TLA+ strings. *)
(***************************************************************************)
EXTENDS Integers, Sequences, FiniteSets, TLC

VARIABLES
    input,    \* the text handed to parseNotes (sequence of characters)
    notes,    \* the caller's array of Note objects (processNotes works on it)
    parsed,   \* the array exactly as parseNotes returned it
    result,   \* outcome of the latest call (return value or thrown error)
    prev,     \* outcome of the call before the latest one
    calls,    \* number of processNotes calls made on the array
    pc        \* "input" | "parsed" | "failed" | "done"

vars == <<input, notes, parsed, result, prev, calls, pc>>

-----------------------------------------------------------------------------
(* Bounds of the explored inputs.                                          *)

MaxAccLen == 3      \* SpecToken: accidental characters after the letter
MaxInputLen == 5    \* SpecParse: characters of the raw text
MaxPairAcc == 1     \* SpecPair: run of sharps or flats per note
MaxChordAcc == 0    \* SpecChord, SpecTwice: run of sharps or flats per note
MaxDeepAcc == 6     \* SpecDeep: run of sharps or flats per note
MaxNotes == 5       \* SpecDispatch: number of tokens in the text
MaxCalls == 2       \* SpecTwice: calls of processNotes on one array

-----------------------------------------------------------------------------
(* Fixed tables.                                                           *)

Letters == {"C", "D", "E", "F", "G", "A", "B"}

\* letter -> <<pitch class of the bare letter, letter index>>
BASE_NOTES ==
    [l \in Letters |->
        CASE l = "C" -> << 0, 0>>
          [] l = "D" -> << 2, 1>>
          [] l = "E" -> << 4, 2>>
          [] l = "F" -> << 5, 3>>
          [] l = "G" -> << 7, 4>>
          [] l = "A" -> << 9, 5>>
          [] l = "B" -> <<11, 6>>]

INTERVALS ==
    [d \in 0..11 |->
        CASE d = 0  -> "Unison"
          [] d = 1  -> "Minor second"
          [] d = 2  -> "Major second"
          [] d = 3  -> "Minor third"
          [] d = 4  -> "Major third"
          [] d = 5  -> "Perfect fourth"
          [] d = 6  -> "Tritone"
          [] d = 7  -> "Perfect fifth"
          [] d = 8  -> "Minor sixth"
          [] d = 9  -> "Major sixth"
          [] d = 10 -> "Minor seventh"
          [] d = 11 -> "Major seventh"]

ChordKeys ==
    {"4,3", "3,4", "3,3", "4,4",
     "4,3,4", "4,3,3", "3,4,3", "3,4,4", "3,3,3", "3,3,2"}

CHORDS ==
    [k \in ChordKeys |->
        CASE k = "4,3"   -> "major triad"
          [] k = "3,4"   -> "minor triad"
          [] k = "3,3"   -> "diminished triad"
          [] k = "4,4"   -> "augmented triad"
          [] k = "4,3,4" -> "major 7th"
          [] k = "4,3,3" -> "dominant 7th"
          [] k = "3,4,3" -> "minor 7th"
          [] k = "3,4,4" -> "minor major 7th"
          [] k = "3,3,3" -> "half diminished 7th"
          [] k = "3,3,2" -> "fully diminished 7th"]

\* What Map.get gives for a key the map does not hold.
undefined == "<undefined>"

-----------------------------------------------------------------------------
(* JavaScript primitives the code relies on.                               *)

\* a % m of JavaScript: the remainder takes the sign of the dividend.
JsRem(a, m) == IF a >= 0 THEN a % m ELSE -((-a) % m)

\* Characters matched by \s (the inputs use the space).
Whitespace == {" "}

RECURSIVE Str(_)
\* The string made of the characters of cs.
Str(cs) == IF cs = <<>> THEN "" ELSE Head(cs) \o Str(Tail(cs))

RECURSIVE Join(_)
\* Array.prototype.join() of an array of numbers: decimal, comma separated.
Join(ns) ==
    IF ns = <<>> THEN ""
    ELSE IF Len(ns) = 1 THEN ToString(ns[1])
    ELSE ToString(ns[1]) \o "," \o Join(Tail(ns))

RECURSIVE Sum(_)
Sum(ns) == IF ns = <<>> THEN 0 ELSE Head(ns) + Sum(Tail(ns))

-----------------------------------------------------------------------------
(* Outcomes: a returned [name, components] pair or a thrown error.         *)

NoResult == [kind |-> "none", name |-> "", hasComponents |-> FALSE,
             components |-> <<>>, error |-> "", message |-> ""]

Return(name, hasComponents, components) ==
    [kind |-> "return", name |-> name, hasComponents |-> hasComponents,
     components |-> components, error |-> "", message |-> ""]

Throw(error, message) ==
    [kind |-> "throw", name |-> "", hasComponents |-> FALSE,
     components |-> <<>>, error |-> error, message |-> message]

-----------------------------------------------------------------------------
(* Note.parse                                                              *)

Note(name, letter_index, base_class, pitch_class) ==
    [name |-> name, letter_index |-> letter_index,
     base_class |-> base_class, pitch_class |-> pitch_class]

NoNote == Note("", 0, 0, 0)

\* accidentals.split('').reduce((acc, c) => acc + (c === '#' ? 1 : -1), 0)
Shift(accidentals) ==
    Sum([k \in 1..Len(accidentals) |->
            IF accidentals[k] = "#" THEN 1 ELSE -1])

\* Note.parse(unparsed_note) for a token of one or more non-space characters:
\* [thrown, error (when thrown), note (otherwise)].
NoteParse(unparsed_note) ==
    LET letter == Head(unparsed_note)
        accidentals == Tail(unparsed_note)
    IN  IF letter \notin DOMAIN BASE_NOTES
        THEN [thrown |-> TRUE, note |-> NoNote,
              error |-> Throw("SyntaxError",
                  "Invalid note letter in \"" \o Str(unparsed_note) \o "\"")]
        ELSE IF \E k \in 1..Len(accidentals) : accidentals[k] \notin {"#", "b"}
        THEN [thrown |-> TRUE, note |-> NoNote,
              error |-> Throw("SyntaxError",
                  "Invalid accidentals in \"" \o Str(unparsed_note) \o "\"")]
        ELSE LET base_class == BASE_NOTES[letter][1]
                 letter_index == BASE_NOTES[letter][2]
                 pitch_class == base_class + Shift(accidentals)
             IN  [thrown |-> FALSE, error |-> NoResult,
                  note |-> Note(Str(unparsed_note), letter_index,
                                base_class, pitch_class)]

\* Note.distance: a.distance(b)
distance(a, b) == JsRem(b.pitch_class - a.pitch_class + 12, 12)

-----------------------------------------------------------------------------
(* parseNotes                                                              *)

RECURSIVE TokenEnd(_, _)
\* Index of the last character of the \S+ run of s that starts at index k.
TokenEnd(s, k) ==
    IF k < Len(s) /\ s[k + 1] \notin Whitespace THEN TokenEnd(s, k + 1) ELSE k

RECURSIVE Tokens(_)
\* The captures of matchAll(/(\S+)\s*/g): the maximal runs of non-space
\* characters, left to right.
Tokens(s) ==
    IF s = <<>> THEN <<>>
    ELSE IF Head(s) \in Whitespace THEN Tokens(Tail(s))
    ELSE LET e == TokenEnd(s, 1)
         IN  <<SubSeq(s, 1, e)>> \o Tokens(SubSeq(s, e + 1, Len(s)))

\* Faulty variant of MapParse: the error of the last malformed token is the
\* one reported.
MapParseLastError(toks) ==
    LET each == [k \in 1..Len(toks) |-> NoteParse(toks[k])]
        bad == {k \in 1..Len(toks) : each[k].thrown}
    IN  IF bad # {}
        THEN LET last == CHOOSE k \in bad : \A j \in bad : k >= j
             IN  [thrown |-> TRUE, error |-> each[last].error, notes |-> <<>>]
        ELSE [thrown |-> FALSE, error |-> NoResult,
              notes |-> [k \in 1..Len(toks) |-> each[k].note]]

\* .map((m) => Note.parse(m[1])): the tokens are parsed left to right and
\* the first one that throws ends the call with its error.
MapParse(toks) ==
    LET each == [k \in 1..Len(toks) |-> NoteParse(toks[k])]
        bad == {k \in 1..Len(toks) : each[k].thrown}
    IN  IF bad # {}
        THEN LET first == CHOOSE k \in bad : \A j \in bad : k <= j
             IN  [thrown |-> TRUE, error |-> each[first].error, notes |-> <<>>]
        ELSE [thrown |-> FALSE, error |-> NoResult,
              notes |-> [k \in 1..Len(toks) |-> each[k].note]]

parseNotes(unparsed_notes) == MapParse(Tokens(unparsed_notes))

-----------------------------------------------------------------------------
(* Chord matching                                                          *)

\* Faulty variant of nth: every number takes the default suffix.
nthDefaultOnly(n) == ToString(n) \o "th"

\* Number to English ordinal
nth(n) ==
    LET s == ToString(n)
    IN  CASE n = 1 -> s \o "st"
          [] n = 2 -> s \o "nd"
          [] n = 3 -> s \o "rd"
          [] OTHER -> s \o "th"

arraysEqual(a, b) ==
    IF Len(a) # Len(b) THEN FALSE
    ELSE \A i \in 1..Len(a) : a[i] = b[i]

\* Faulty variant of UnshiftPop: indices.push(indices.shift()), the first
\* element moves to the end.
PushShift(a) ==
    IF a = <<>> THEN a ELSE SubSeq(a, 2, Len(a)) \o <<a[1]>>

\* indices.unshift(indices.pop()): the last element moves to the front.
UnshiftPop(a) ==
    IF a = <<>> THEN a ELSE <<a[Len(a)]>> \o SubSeq(a, 1, Len(a) - 1)

\* const a = indices.map(i => (i - s + 7) % 7) with s = indices[0]
Rebase(indices) ==
    [k \in 1..Len(indices) |-> JsRem(indices[k] - indices[1] + 7, 7)]

\* const b = [0, 2, 4, ...]: as many stacked letter thirds as there are notes
Stacked(n) == [k \in 1..n |-> (k - 1) * 2]

RECURSIVE inversionLoopShort(_, _, _)
\* Faulty variant of inversionLoop: the loop stops one rotation early.
inversionLoopShort(indices, b, i) ==
    IF i >= Len(indices) - 1 THEN -1
    ELSE IF arraysEqual(Rebase(indices), b) THEN i
    ELSE inversionLoopShort(UnshiftPop(indices), b, i + 1)

RECURSIVE inversionLoop(_, _, _)
\* The for loop of inversion(): iteration i sees the letter indices with
\* their last i elements moved to the front.
inversionLoop(indices, b, i) ==
    IF i >= Len(indices) THEN -1
    ELSE IF arraysEqual(Rebase(indices), b) THEN i
    ELSE inversionLoop(UnshiftPop(indices), b, i + 1)

inversion(ns) ==
    LET indices == [k \in 1..Len(ns) |-> ns[k].letter_index]
    IN  inversionLoop(indices, Stacked(Len(indices)), 0)

\* Semitone steps between neighbouring notes.
intervals(ns) ==
    [k \in 1..(Len(ns) - 1) |->
        JsRem(ns[k + 1].pitch_class - ns[k].pitch_class + 12, 12)]

\* chordInfo(notes): the outcome and the array as the call leaves it
\* (notes.splice(notes.length - i, i) removes the last i notes from it).
chordInfo(ns) ==
    LET i == inversion(ns)
    IN  IF i >= 0
        THEN LET tail == SubSeq(ns, Len(ns) - i + 1, Len(ns))
                 rest == SubSeq(ns, 1, Len(ns) - i)
                 fixed == tail \o rest
                 key == Join(intervals(fixed))
             IN  IF key \in DOMAIN CHORDS
                 THEN LET name == fixed[1].name \o " " \o CHORDS[key]
                          components == [k \in 1..Len(fixed) |-> fixed[k].name]
                      IN  [outcome |->
                              IF i = 0 THEN Return(name, TRUE, components)
                              ELSE Return(name \o " (" \o nth(i) \o " inversion)",
                                          TRUE, components),
                           notes |-> rest]
                 ELSE [outcome |-> Throw("Error", "Invalid chord"),
                       notes |-> rest]
        ELSE [outcome |-> Throw("Error", "Invalid chord"), notes |-> ns]

\* INTERVALS.get(d)
IntervalName(d) == IF d \in DOMAIN INTERVALS THEN INTERVALS[d] ELSE undefined

\* Faulty variant of processNotes: five notes are sent to chord matching.
processNotesUpToFive(ns) ==
    CASE Len(ns) = 1 ->
            [outcome |-> Return(ns[1].name, FALSE, <<>>), notes |-> ns]
      [] Len(ns) = 2 ->
            [outcome |-> Return(IntervalName(distance(ns[1], ns[2])),
                                FALSE, <<>>),
             notes |-> ns]
      [] Len(ns) \in {3, 4, 5} -> chordInfo(ns)
      [] OTHER ->
            [outcome |-> Throw("Error",
                            "Only up to four notes (seventh chords) supported"),
             notes |-> ns]

\* processNotes(notes): the outcome and the array as the call leaves it.
processNotes(ns) ==
    CASE Len(ns) = 1 ->
            [outcome |-> Return(ns[1].name, FALSE, <<>>), notes |-> ns]
      [] Len(ns) = 2 ->
            [outcome |-> Return(IntervalName(distance(ns[1], ns[2])),
                                FALSE, <<>>),
             notes |-> ns]
      [] Len(ns) \in {3, 4} -> chordInfo(ns)
      [] OTHER ->
            [outcome |-> Throw("Error",
                            "Only up to four notes (seventh chords) supported"),
             notes |-> ns]

-----------------------------------------------------------------------------
(* The query as a state machine.                                           *)

\* A query starts with the caller's text and nothing computed.
InitWith(Inputs) ==
    /\ input \in Inputs
    /\ notes = <<>>
    /\ parsed = <<>>
    /\ result = NoResult
    /\ prev = NoResult
    /\ calls = 0
    /\ pc = "input"

\* const notes = parseNotes(s)
ParseNotes ==
    /\ pc = "input"
    /\ LET r == parseNotes(input)
       IN  IF r.thrown
           THEN /\ result' = r.error
                /\ pc' = "failed"
                /\ UNCHANGED <<notes, parsed>>
           ELSE /\ notes' = r.notes
                /\ parsed' = r.notes
                /\ pc' = "parsed"
                /\ UNCHANGED result
    /\ UNCHANGED <<input, prev, calls>>

\* processNotes(notes) on the caller's array, at most `limit` times.
ProcessNotes(limit) ==
    /\ pc \in {"parsed", "done"}
    /\ calls < limit
    /\ LET r == processNotes(notes)
       IN  /\ result' = r.outcome
           /\ notes' = r.notes
    /\ prev' = result
    /\ calls' = calls + 1
    /\ pc' = "done"
    /\ UNCHANGED <<input, parsed>>

Resolve == ProcessNotes(1)

ResolveAgain == ProcessNotes(MaxCalls)

Next == ParseNotes \/ Resolve

NextTwice == ParseNotes \/ ResolveAgain

-----------------------------------------------------------------------------
(* Input families.                                                         *)

\* n copies of the character c
Run(c, n) == [k \in 1..n |-> c]

\* Runs of up to n sharps or up to n flats (the empty run included).
AccRuns(n) == {Run("#", k) : k \in 0..n} \cup {Run("b", k) : k \in 1..n}

\* All character strings over cs of length 0..n
Strings(cs, n) == UNION {[1..k -> cs] : k \in 0..n}

\* Note tokens: a letter followed by one of the accidental strings.
NoteTokens(accs) == {<<l>> \o a : l \in Letters, a \in accs}

RECURSIVE Phrase(_)
\* The tokens separated by single spaces.
Phrase(toks) ==
    IF toks = <<>> THEN <<>>
    ELSE IF Len(toks) = 1 THEN toks[1]
    ELSE toks[1] \o <<" ">> \o Phrase(Tail(toks))

ParseChars == {"C", "B", "#", "b", "H", " "}

\* The text is n tokens drawn from toks, for some n in lens.
InitPhrase(toks, lens) ==
    \E n \in lens : \E t \in [1..n -> toks] : InitWith({Phrase(t)})

\* One note token: a letter and up to MaxAccLen accidental characters.
InitToken == InitPhrase(NoteTokens(Strings({"#", "b"}, MaxAccLen)), {1})

\* Any text of up to MaxInputLen characters, well formed or not.
InitParse ==
    \E n \in 0..MaxInputLen : \E s \in [1..n -> ParseChars] : InitWith({s})

\* Two notes.
InitPair == InitPhrase(NoteTokens(AccRuns(MaxPairAcc)), {2})

\* Three or four notes.
InitChord == InitPhrase(NoteTokens(AccRuns(MaxChordAcc)), {3, 4})

\* Three notes on the letters of one stack of thirds that passes from B to
\* D, with long runs of accidentals.
InitDeep ==
    InitPhrase({<<l>> \o a : l \in {"B", "D", "F"}, a \in AccRuns(MaxDeepAcc)},
               {3})

\* Zero to MaxNotes bare letters, or spaces only.
InitDispatch ==
    \/ InitPhrase(NoteTokens({<<>>}), 0..MaxNotes)
    \/ InitWith({<<" ">>, <<" ", " ">>})

SpecToken == InitToken /\ [][Next]_vars
SpecParse == InitParse /\ [][Next]_vars
SpecPair == InitPair /\ [][Next]_vars
SpecChord == InitChord /\ [][Next]_vars
SpecTwice == InitChord /\ [][NextTwice]_vars
SpecDeep == InitDeep /\ [][Next]_vars
SpecDispatch == InitDispatch /\ [][Next]_vars

-----------------------------------------------------------------------------
(* Canonical spellings of the chord shapes (round-trip inputs).            *)

\* The semitone gaps a chord-table key stands for.
GapsOf(key) ==
    CHOOSE g \in [1..2 -> 2..4] \cup [1..3 -> 2..4] : Join(g) = key

LetterAt(index) == CHOOSE l \in Letters : BASE_NOTES[l][2] = index

\* Root-position spelling of the shape `key` on the natural root letter:
\* member k is the letter 2k letter steps above the root, with the sharps or
\* flats that put it Sum(gaps 1..k) semitones above the root.
Spell(key, root) ==
    LET gaps == GapsOf(key)
        r == BASE_NOTES[root][2]
    IN  [k \in 1..(Len(gaps) + 1) |->
            LET li == r + 2 * (k - 1)
                letter == LetterAt(li % 7)
                height == 12 * (li \div 7) + BASE_NOTES[letter][1]
                target == BASE_NOTES[root][1] + Sum(SubSeq(gaps, 1, k - 1))
                shift == target - height
            IN  <<letter>> \o
                    (IF shift >= 0 THEN Run("#", shift) ELSE Run("b", -shift))]

\* s with its first i elements moved to the end.
RotL(s, i) == [k \in 1..Len(s) |-> s[((k - 1 + i) % Len(s)) + 1]]

\* s with its last i elements moved to the front.
RotR(s, i) == [k \in 1..Len(s) |-> s[((k - 1 - i + Len(s)) % Len(s)) + 1]]

\* A table chord on a natural root, in root position or any inversion.
InitRoundTrip ==
    \E key \in ChordKeys : \E root \in Letters :
        \E k \in 0..Len(GapsOf(key)) :
            InitWith({Phrase(RotL(Spell(key, root), k))})

SpecRoundTrip == InitRoundTrip /\ [][Next]_vars

-----------------------------------------------------------------------------
(* Vocabulary of the properties, stated without the resolver's operators.  *)

\* The whitespace-delimited words of a text: the maximal runs of non-space
\* characters, in text order.
WordStarts(s) ==
    {i \in 1..Len(s) : s[i] # " " /\ (i = 1 \/ s[i - 1] = " ")}

WordEnd(s, i) ==
    CHOOSE j \in i..Len(s) :
        /\ \A k \in i..j : s[k] # " "
        /\ (j = Len(s) \/ s[j + 1] = " ")

WordsOf(s) ==
    LET starts == WordStarts(s)
        nthStart(n) ==
            CHOOSE i \in starts : Cardinality({j \in starts : j < i}) = n - 1
    IN  [n \in 1..Cardinality(starts) |->
            SubSeq(s, nthStart(n), WordEnd(s, nthStart(n)))]

BadLetter(w) == w[1] \notin {"A", "B", "C", "D", "E", "F", "G"}

BadAccidentals(w) == \E k \in 2..Len(w) : w[k] \notin {"#", "b"}

\* Number of occurrences of the character c in w.
Count(w, c) == Cardinality({k \in 1..Len(w) : w[k] = c})

\* Consecutive letter steps are all thirds (two letter positions up, mod 7).
LetterStacked(ns) ==
    \A k \in 1..(Len(ns) - 1) :
        (ns[k + 1].letter_index - ns[k].letter_index + 7) % 7 = 2

\* Consecutive semitone gaps, each in 0..11.
SemitoneGaps(ns) ==
    [k \in 1..(Len(ns) - 1) |->
        (ns[k + 1].pitch_class - ns[k].pitch_class + 12) % 12]

\* The arrangement is a stack of thirds whose gaps are a chord-table key.
Matches(ns) == LetterStacked(ns) /\ Join(SemitoneGaps(ns)) \in ChordKeys

Least(S) == CHOOSE i \in S : \A j \in S : i <= j

Names(ns) == [k \in 1..Len(ns) |-> ns[k].name]

Ordinal(i) ==
    CASE i = 1 -> "1st" [] i = 2 -> "2nd" [] i = 3 -> "3rd" [] OTHER -> "?"

\* " (<ordinal(i)> inversion)", nothing in root position.
Suffix(i) == IF i = 0 THEN "" ELSE " (" \o Ordinal(i) \o " inversion)"

IntervalNames == {INTERVALS[d] : d \in DOMAIN INTERVALS}

UsageError ==
    Throw("Error", "Only up to four notes (seventh chords) supported")

InvalidChord == Throw("Error", "Invalid chord")

-----------------------------------------------------------------------------
(* C1 *)

\* C1: for every letter L and accidental string S over {#, b}, the note
\* parsed from L+S has pitch class (base(L) + #sharps - #flats) mod 12, a
\* value in 0..11.
C1_PitchClassReduced ==
    pc # "input" =>
        /\ Len(parsed) = 1
        /\ parsed[1].pitch_class \in 0..11
        /\ parsed[1].pitch_class =
              (BASE_NOTES[input[1]][1] + Count(input, "#") - Count(input, "b"))
                  % 12

-----------------------------------------------------------------------------
(* C2 *)

\* C2: for every pair of parsed notes the result is (name, absent) with name
\* the interval-table entry of the directional distance
\* (b.pitchClass - a.pitchClass + 12) mod 12, which is always one of the
\* twelve interval names.
C2_IntervalNamed ==
    (pc = "done" /\ Len(parsed) = 2) =>
        /\ result.kind = "return"
        /\ ~result.hasComponents
        /\ result.name \in IntervalNames
        /\ result.name =
              INTERVALS[(parsed[2].pitch_class - parsed[1].pitch_class + 12)
                            % 12]

-----------------------------------------------------------------------------
(* C3 *)

\* C3: after processNotes returns or throws on 3 or 4 notes, the caller's
\* array holds the same notes in the same order as before the call.
C3_CallerArrayUntouched ==
    (pc = "done" /\ Len(parsed) \in {3, 4}) => notes = parsed

-----------------------------------------------------------------------------
(* C4 *)

\* The outcome the round trip expects for shape `key` on `root` sounded from
\* its k-th member.
Expected(key, root, k) ==
    LET R == Spell(key, root)
    IN  Return(Str(R[1]) \o " " \o CHORDS[key] \o Suffix(k), TRUE,
               [j \in 1..Len(R) |-> Str(R[j])])

\* C4: resolving the root-position spelling R of any table shape on any root
\* letter gives "<R[0].name> <quality>" with the names of R as components;
\* resolving R with its first k notes moved to the end gives the same name
\* with " (<ordinal(k)> inversion)" and again the names of R, root first.
C4_RoundTrip ==
    pc = "done" =>
        \A key \in ChordKeys : \A root \in Letters :
            \A k \in 0..Len(GapsOf(key)) :
                input = Phrase(RotL(Spell(key, root), k))
                    => result = Expected(key, root, k)

\* A seventh chord with flats sounded from its seventh resolves as the third
\* inversion.
C4_Witness ==
    /\ pc = "done"
    /\ input = Phrase(RotL(Spell("3,3,2", "C"), 3))
    /\ result = Expected("3,3,2", "C", 3)

-----------------------------------------------------------------------------
(* C5 *)

\* Rotations of the input, by the number of leading notes moved to the end,
\* that match.
LeftMatches == {j \in 0..(Len(parsed) - 1) : Matches(RotL(parsed, j))}

\* Rotations of the input, by the number of trailing notes moved to the
\* front, that match.
RightMatches == {i \in 0..(Len(parsed) - 1) : Matches(RotR(parsed, i))}

-----------------------------------------------------------------------------
(* C6 *)

\* C6: on 3 or 4 notes processNotes succeeds exactly when some rotation is a
\* stack of thirds whose semitone gaps are a chord-table key, the result
\* comes from the first such rotation, and otherwise the call fails with
\* "Invalid chord".
C6_SucceedsIffSomeRotationMatches ==
    (pc = "done" /\ Len(parsed) \in {3, 4}) =>
        IF RightMatches # {}
        THEN /\ result.kind = "return"
             /\ result.components = Names(RotR(parsed, Least(RightMatches)))
        ELSE result = InvalidChord

-----------------------------------------------------------------------------
(* C7 *)

Malformed(w) == BadLetter(w) \/ BadAccidentals(w)

\* The message for a malformed word: the letter is judged first.
SyntaxMessage(w) ==
    (IF BadLetter(w) THEN "Invalid note letter in \""
     ELSE "Invalid accidentals in \"") \o Str(w) \o "\""

\* C7: parseNotes throws a syntax error for the first malformed word of the
\* text, "Invalid note letter" when its first character is not A..G and
\* otherwise "Invalid accidentals", and gives no notes; when every word is
\* well formed it returns one note per word, in order, named by the word.
C7_FirstOffenceReported ==
    pc # "input" =>
        LET ws == WordsOf(input)
            bad == {k \in 1..Len(ws) : Malformed(ws[k])}
        IN  IF bad = {}
            THEN /\ pc \in {"parsed", "done"}
                 /\ Len(parsed) = Len(ws)
                 /\ \A k \in 1..Len(ws) : parsed[k].name = Str(ws[k])
            ELSE /\ pc = "failed"
                 /\ notes = <<>>
                 /\ parsed = <<>>
                 /\ result = Throw("SyntaxError", SyntaxMessage(ws[Least(bad)]))

\* Two malformed words, the first with a bad accidental and the second with
\* a bad letter: the error names the first.
C7_Witness ==
    /\ pc = "failed"
    /\ LET ws == WordsOf(input)
       IN  /\ Len(ws) = 2
           /\ ~BadLetter(ws[1]) /\ BadAccidentals(ws[1])
           /\ BadLetter(ws[2])
           /\ result.message = SyntaxMessage(ws[1])

-----------------------------------------------------------------------------
(* C8 *)

\* C8: processNotes dispatches on the number of notes alone: one note gives
\* (its name, absent), two give an interval result without components, three
\* or four run chord matching, and any other number (none, as for an empty
\* or all-space text, or five and more) throws the usage error.
C8_DispatchOnLength ==
    /\ pc = "parsed" => Len(parsed) = Len(WordsOf(input))
    /\ pc = "done" =>
          LET ws == WordsOf(input)
              n == Len(ws)
          IN  CASE n = 1 -> result = Return(Str(ws[1]), FALSE, <<>>)
                [] n = 2 ->
                      /\ result.kind = "return"
                      /\ ~result.hasComponents
                      /\ result.components = <<>>
                [] n \in {3, 4} ->
                      \/ /\ result.kind = "return"
                         /\ result.hasComponents
                         /\ Len(result.components) = n
                      \/ result = InvalidChord
                [] OTHER -> result = UsageError

\* Five notes: the usage error.
C8_Witness ==
    /\ pc = "done"
    /\ Len(parsed) = 5
    /\ result = UsageError

-----------------------------------------------------------------------------
(* C9 *)

\* C9: calling processNotes twice in succession on the same array gives the
\* same outcome both times.
C9_SameOutcomeTwice == calls >= 2 => result = prev

-----------------------------------------------------------------------------
(* C10 *)

\* Rotations of the input whose letters climb by thirds.
LetterValid ==
    {i \in 0..(Len(parsed) - 1) : LetterStacked(RotR(parsed, i))}

\* C10: of the rotations of 3 or 4 notes at most one has letters climbing by
\* thirds; inversion() returns that rotation (-1 when there is none), and the
\* call succeeds exactly when the table holds that rotation's gaps.
C10_OneLetterValidRotation ==
    pc \in {"parsed", "done"} =>
        /\ Cardinality(LetterValid) <= 1
        /\ inversion(parsed) =
              (IF LetterValid = {} THEN -1 ELSE Least(LetterValid))
        /\ pc = "done" =>
              (result.kind = "return" <=>
                  \E i \in LetterValid :
                      Join(intervals(RotR(parsed, i))) \in ChordKeys)

\* A sequence with a repeated letter has no letter-valid rotation; this one
\* has exactly one, the second, and resolves.
C10_Witness ==
    /\ pc = "done"
    /\ Len(parsed) = 4
    /\ LetterValid = {2}
    /\ result.kind = "return"

=============================================================================
